---- MODULE Spec2Model ----
(***************************************************************************)
(* The soil-moisture sensor of agri_iot_simulator (src/src/main.rs): the   *)
(* device state machine SoilMoistureSensor::transition, the styler         *)
(* style_line, main's driving loop with its key handler, and the reference *)
(* scenario of the specification.                                          *)
(*                                                                         *)
(* Moisture values are f32 percentages.  They are modelled as integers in  *)
(* units of 0.5 % (58 is 29.0 %): every multiple of 0.5 in the modelled    *)
(* range is exactly representable in f32, so the additions and comparisons *)
(* of the code are exact on them.  A proposed reading can also be NaN, for *)
(* which f32::max returns the other operand.                               *)
(***************************************************************************)
EXTENDS Integers, Sequences, TLC

VARIABLES
    state,            \* SoilMoistureSensor.state
    moisture_level,   \* SoilMoistureSensor.moisture_level, in half percents
    threshold,        \* SoilMoistureSensor.threshold, in half percents
    just_watered,     \* SoilMoistureSensor.just_watered
    animation_frame,  \* SoilMoistureSensor.animation_frame
    new_moisture,     \* argument of the latest call of transition
    message,          \* value returned by the latest call of transition
    op,               \* the operation of main's loop body that ran last
    fed,              \* number of readings of the reference scenario fed so far
    twin,             \* a second sensor, stepped with the same inputs
    canvas,           \* animation_lines of the latest paint (or style_line call)
    style_args        \* arguments of the latest stand-alone style_line call

vars == <<state, moisture_level, threshold, just_watered, animation_frame,
          new_moisture, message, op, fed, twin, canvas, style_args>>

(* What the calls of transition on the first sensor leave alone.           *)
others == <<twin, canvas, style_args>>

----------------------------------------------------------------------------
(* Bounds of the stand-alone style_line calls: line indices 0..MaxIndex    *)
(* and blink frames 0..MaxFrame.                                           *)
MaxIndex == 15
MaxFrame == 1

(* Bounds of the model: proposed readings range over                       *)
(* -NegReadings .. MaxReading half percents, and NaN.                      *)
NegReadings == 2
MaxReading == 84

(* Program constants, in half percents.                                    *)
InitMoisture == 100     \* 50.0
MainThreshold == 60     \* 30.0
WaterBump == 30         \* 15.0
BandWidth == 20         \* 10.0

(* rng.gen_range(0.5..2.0): the drops 0.5, 1.0 and 1.5, in half percents.  *)
MinDrop == 1
MaxDrop == 3

DeviceState == {"Monitoring", "Activating", "Adjusting", "Idle", "Error"}

(* f32 values proposed to transition: a number of half percents, or NaN.   *)
F32(v) == [nan |-> FALSE, v |-> v]
NaN == [nan |-> TRUE, v |-> 0]
Readings == {F32(v) : v \in (0 - NegReadings)..MaxReading} \cup {NaN}

(* Option<String>                                                          *)
None == <<>>
Some(s) == <<s>>

(* format!("{:.1}", m) of a non-negative multiple of 0.5                   *)
Fmt1(m) == ToString(m \div 2) \o "." \o (IF m % 2 = 0 THEN "0" ELSE "5")

----------------------------------------------------------------------------
(* Variant of F32Max0 without the clamp: the reading is taken as it is.    *)
F32Max0NoClamp(r) == IF r.nan THEN 0 ELSE r.v

(* new_moisture.max(0.0): f32::max ignores a NaN operand.                  *)
F32Max0(r) == IF r.nan THEN 0 ELSE IF r.v > 0 THEN r.v ELSE 0

(* Variant of PreStepMoisture without the just_watered check.              *)
PreStepMoistureAlwaysApplies(jw, m, r) == F32Max0(r)

(* The pre-step: the reading is applied unless just_watered holds.         *)
PreStepMoisture(jw, m, r) == IF ~jw THEN F32Max0(r) ELSE m

(* Variant of ToggleFrame that forgets `% 2`: the counter only grows.      *)
ToggleFrameNoWrap(f) == f + 1

(* (animation_frame + 1) % 2                                               *)
ToggleFrame(f) == (f + 1) % 2

(* The arms of `match self.state`.  Each takes the moisture m left by the   *)
(* pre-step, the threshold th and the frame f before the step, and gives   *)
(* the fields of the sensor after the arm together with the message.       *)
(* just_watered was cleared before the match; only Activating sets it.     *)
Arm(s, m, jw, f, msg) ==
    [state |-> s, moisture_level |-> m, just_watered |-> jw,
     animation_frame |-> f, message |-> msg]

(* Variant of MonitoringArm that treats a reading of 0.0 as a sensor fault.*)
MonitoringArmFaults(m, th, f) ==
    IF m = 0
    THEN Arm("Error", m, FALSE, ToggleFrame(f),
             Some("Error state, no transitions"))
    ELSE IF m < th
    THEN Arm("Activating", m, FALSE, 0,
             Some("Moisture low (" \o Fmt1(m) \o "%), activating..."))
    ELSE Arm("Monitoring", m, FALSE, ToggleFrame(f), None)

(* Variant of MonitoringArm whose "low" guard is not strict (<= for <).    *)
MonitoringArmInclusive(m, th, f) ==
    IF m <= th
    THEN Arm("Activating", m, FALSE, 0,
             Some("Moisture low (" \o Fmt1(m) \o "%), activating..."))
    ELSE Arm("Monitoring", m, FALSE, ToggleFrame(f), None)

(* Variant of MonitoringArm that checks the moisture on even frames only.  *)
MonitoringArmOnFrame(m, th, f) ==
    IF m < th /\ f = 0
    THEN Arm("Activating", m, FALSE, 0,
             Some("Moisture low (" \o Fmt1(m) \o "%), activating..."))
    ELSE Arm("Monitoring", m, FALSE, ToggleFrame(f), None)

(* Variant of MonitoringArm that forgets `self.animation_frame = 0`.       *)
MonitoringArmNoReset(m, th, f) ==
    IF m < th
    THEN Arm("Activating", m, FALSE, ToggleFrame(f),
             Some("Moisture low (" \o Fmt1(m) \o "%), activating..."))
    ELSE Arm("Monitoring", m, FALSE, ToggleFrame(f), None)

MonitoringArm(m, th, f) ==
    IF m < th
    THEN Arm("Activating", m, FALSE, 0,
             Some("Moisture low (" \o Fmt1(m) \o "%), activating..."))
    ELSE Arm("Monitoring", m, FALSE, ToggleFrame(f), None)

(* Variant of ActivatingArm that forgets `self.moisture_level += 15.0`.    *)
ActivatingArmNoBump(m, th, f) ==
    Arm("Adjusting", m, TRUE, ToggleFrame(f),
        Some("Watering... Moisture now " \o Fmt1(m) \o "%"))

(* Variant of ActivatingArm that forgets `self.just_watered = true`.       *)
ActivatingArmNoFlag(m, th, f) ==
    Arm("Adjusting", m + WaterBump, FALSE, ToggleFrame(f),
        Some("Watering... Moisture now " \o Fmt1(m + WaterBump) \o "%"))

ActivatingArm(m, th, f) ==
    Arm("Adjusting", m + WaterBump, TRUE, ToggleFrame(f),
        Some("Watering... Moisture now " \o Fmt1(m + WaterBump) \o "%"))

(* Variant of AdjustingArm that forgets `+ 10.0` in the "optimal" guard.   *)
AdjustingArmNoBand(m, th, f) ==
    IF m >= th
    THEN Arm("Idle", m, FALSE, 0,
             Some("Moisture optimal (" \o Fmt1(m) \o "%), going idle"))
    ELSE Arm("Monitoring", m, FALSE, 0,
             Some("Moisture still low (" \o Fmt1(m)
                    \o "%), back to monitoring"))

(* Variant of AdjustingArm whose "optimal" guard is strict (> for >=).     *)
AdjustingArmStrict(m, th, f) ==
    IF m > th + BandWidth
    THEN Arm("Idle", m, FALSE, 0,
             Some("Moisture optimal (" \o Fmt1(m) \o "%), going idle"))
    ELSE IF m < th
    THEN Arm("Monitoring", m, FALSE, 0,
             Some("Moisture still low (" \o Fmt1(m)
                    \o "%), back to monitoring"))
    ELSE Arm("Adjusting", m, FALSE, 0, None)

AdjustingArm(m, th, f) ==
    IF m >= th + BandWidth
    THEN Arm("Idle", m, FALSE, 0,
             Some("Moisture optimal (" \o Fmt1(m) \o "%), going idle"))
    ELSE IF m < th
    THEN Arm("Monitoring", m, FALSE, 0,
             Some("Moisture still low (" \o Fmt1(m)
                    \o "%), back to monitoring"))
    ELSE Arm("Adjusting", m, FALSE, 0, None)

(* Variant of IdleArm that returns no message when it leaves Idle.         *)
IdleArmSilent(m, th, f) ==
    IF m < th
    THEN Arm("Monitoring", m, FALSE, 0, None)
    ELSE Arm("Idle", m, FALSE, 0, None)

(* Variant of IdleArm that toggles the frame instead of resetting it.      *)
IdleArmBlinks(m, th, f) ==
    IF m < th
    THEN Arm("Monitoring", m, FALSE, ToggleFrame(f),
             Some("Moisture dropping, back to monitoring"))
    ELSE Arm("Idle", m, FALSE, ToggleFrame(f), None)

(* Variant of IdleArm that never goes back to Monitoring.                  *)
IdleArmSticky(m, th, f) == Arm("Idle", m, FALSE, 0, None)

IdleArm(m, th, f) ==
    IF m < th
    THEN Arm("Monitoring", m, FALSE, 0,
             Some("Moisture dropping, back to monitoring"))
    ELSE Arm("Idle", m, FALSE, 0, None)

(* Variant of ErrorArm that recovers once the moisture is not low.         *)
ErrorArmRecovers(m, th, f) ==
    IF m >= th
    THEN Arm("Monitoring", m, FALSE, ToggleFrame(f),
             Some("Error state, no transitions"))
    ELSE Arm("Error", m, FALSE, ToggleFrame(f),
             Some("Error state, no transitions"))

(* Variant of ErrorArm that resets the frame as Adjusting and Idle do.     *)
ErrorArmNoBlink(m, th, f) ==
    Arm("Error", m, FALSE, 0, Some("Error state, no transitions"))

ErrorArm(m, th, f) ==
    Arm("Error", m, FALSE, ToggleFrame(f), Some("Error state, no transitions"))

MatchState(s, m, th, f) ==
    CASE s = "Monitoring" -> MonitoringArm(m, th, f)
      [] s = "Activating" -> ActivatingArm(m, th, f)
      [] s = "Adjusting"  -> AdjustingArm(m, th, f)
      [] s = "Idle"       -> IdleArm(m, th, f)
      [] s = "Error"      -> ErrorArm(m, th, f)

(* FLOWER_BASE.lines(): the 16 lines of the glyph.  The backquote of the   *)
(* source text is written ^ here; it does not occur in the pattern " / ".  *)
FLOWER_BASE ==
    <<
       "            .--. ",
       "      .-\"-:^    ^:-\"-.",
       "   .-/     '.  .'     \\-.",
       "  ;__|      _::_      |__;",
       " /^   '.  /^ \\/^ \\  .'   ^\\",
       " |      _ \\      / _      |",
       " \\    /^ '.'.  .'.' ^\\    /",
       "/ '-._'.  _'./\\.'_  .'_.-' \\",
       "\\ .-' .'^  .'\\//'.  ^'. '-. /",
       " /    \\._.'.'  '.'._./    \\",
       " |        /      \\        |",
       " \\.__ .'  \\._/\\_.//  '. __./",
       "  ;  |       ::       |  ;",
       "   '-\\     .'  '.     /-'",
       " jgs  '-.-:_    _:-.-'",
       "            '--'"
    >>

(* line.contains(pat)                                                      *)
Contains(line, pat) ==
    \E i \in 1..(Len(line) - Len(pat) + 1) :
        SubSeq(line, i, i + Len(pat) - 1) = pat

(* Variant of IdleIsCenter without the index band 7..9.                    *)
IdleIsCenterNoBand(index, line) == index = 11 \/ Contains(line, " / ")

(* The centre test of the Idle arm of style_line.                          *)
IdleIsCenter(index, line) ==
    index = 11 \/ (index >= 7 /\ index <= 9 /\ Contains(line, " / "))

(* style_line(index, line, blink_frame, state): the line with its colour.  *)
StyleLine(index, line, blink_frame, s) ==
    [text |-> line,
     fg |-> CASE s = "Monitoring" -> "Yellow"
              [] s = "Activating" ->
                    IF blink_frame = 0 THEN "Blue" ELSE "Black"
              [] s = "Adjusting"  -> "Cyan"
              [] s = "Idle"       ->
                    IF IdleIsCenter(index, line) THEN "White"
                    ELSE "Rgb(255, 165, 0)"
              [] s = "Error"      ->
                    IF blink_frame = 0 THEN "Red" ELSE "Black"]

(* Line texts given to the stand-alone calls: the glyph's and a few more.  *)
LineTexts ==
    {FLOWER_BASE[i] : i \in 1..Len(FLOWER_BASE)} \cup {"", " / ", "a / b", " /"}

----------------------------------------------------------------------------
----------------------------------------------------------------------------
(* SoilMoistureSensor::new(30.0), as main constructs it.                   *)
Init ==
    /\ state = "Monitoring"
    /\ moisture_level = InitMoisture
    /\ threshold = MainThreshold
    /\ just_watered = FALSE
    /\ animation_frame = 0
    /\ new_moisture = F32(InitMoisture)
    /\ message = None
    /\ op = "new"
    /\ fed = 0
    /\ twin = Arm("Monitoring", InitMoisture, FALSE, 0, None)
    /\ canvas = <<>>
    /\ style_args = <<>>

(* sensor.transition(r)                                                    *)
Transition(r) ==
    \E a \in {MatchState(state,
                         PreStepMoisture(just_watered, moisture_level, r),
                         threshold, animation_frame)} :
        /\ state' = a.state
        /\ moisture_level' = a.moisture_level
        /\ just_watered' = a.just_watered
        /\ animation_frame' = a.animation_frame
        /\ message' = a.message
        /\ new_moisture' = r
        /\ op' = "transition"
        /\ UNCHANGED threshold

(* A tick with an arbitrary proposed reading.                              *)
Step == \E r \in Readings : Transition(r) /\ UNCHANGED <<fed, others>>

(* The 'e' key of main's poll: sensor.state = DeviceState::Error.          *)
Override ==
    /\ state' = "Error"
    /\ op' = "override"
    /\ UNCHANGED <<moisture_level, threshold, just_watered, animation_frame,
                   new_moisture, message, fed, others>>

Next == Step \/ Override

Spec == Init /\ [][Next]_vars

(* Ticks only: the 'inject Error' key is never pressed.                    *)
NextNoOverride == Step

SpecNoOverride == Init /\ [][NextNoOverride]_vars

(* The reference scenario: readings 29.0, x, x fed to the new sensor.      *)
Feed1 == fed = 0 /\ Transition(F32(58)) /\ fed' = 1 /\ UNCHANGED others

Feed2 ==
    fed = 1 /\ (\E x \in Readings : Transition(x)) /\ fed' = 2
        /\ UNCHANGED others

Feed3 == fed = 2 /\ Transition(new_moisture) /\ fed' = 3 /\ UNCHANGED others

ScenarioNext == Feed1 \/ Feed2 \/ Feed3

SpecScenario == Init /\ [][ScenarioNext]_vars

(* Two sensors stepped together.  The second one starts as the new sensor  *)
(* after one tick with reading 50.0, which changes nothing but its frame.  *)
InitTwin ==
    /\ state = "Monitoring"
    /\ moisture_level = InitMoisture
    /\ threshold = MainThreshold
    /\ just_watered = FALSE
    /\ animation_frame = 0
    /\ new_moisture = F32(InitMoisture)
    /\ message = None
    /\ op = "new"
    /\ fed = 0
    /\ twin = MonitoringArm(InitMoisture, MainThreshold, 0)
    /\ canvas = <<>>
    /\ style_args = <<>>

(* transition(r) on both sensors.                                          *)
TwinStep ==
    \E r \in Readings :
        /\ Transition(r)
        /\ twin' = MatchState(twin.state,
                              PreStepMoisture(twin.just_watered,
                                              twin.moisture_level, r),
                              threshold, twin.animation_frame)
        /\ UNCHANGED <<fed, canvas, style_args>>

(* The override on both sensors.                                           *)
TwinOverride ==
    /\ state' = "Error"
    /\ twin' = [twin EXCEPT !.state = "Error"]
    /\ op' = "override"
    /\ UNCHANGED <<moisture_level, threshold, just_watered, animation_frame,
                   new_moisture, message, fed, canvas, style_args>>

TwinNext == TwinStep \/ TwinOverride

SpecTwin == InitTwin /\ [][TwinNext]_vars

(* Stand-alone calls of style_line: the arguments are drawn first, then    *)
(* the call is made on them.                                               *)
InitStyle ==
    /\ state = "Monitoring"
    /\ moisture_level = InitMoisture
    /\ threshold = MainThreshold
    /\ just_watered = FALSE
    /\ animation_frame = 0
    /\ new_moisture = F32(InitMoisture)
    /\ message = None
    /\ op = "new"
    /\ fed = 0
    /\ twin = Arm("Monitoring", InitMoisture, FALSE, 0, None)
    /\ canvas = <<>>
    /\ style_args \in (0..MaxIndex) \X LineTexts \X (0..MaxFrame) \X DeviceState

StyleCall ==
    /\ canvas = <<>>
    /\ canvas' = <<StyleLine(style_args[1], style_args[2],
                             style_args[3], style_args[4])>>
    /\ UNCHANGED <<state, moisture_level, threshold, just_watered,
                   animation_frame, new_moisture, message, op, fed, twin,
                   style_args>>

SpecStyle == InitStyle /\ [][StyleCall]_vars

(* The driving loop of main.                                               *)
(* Variant of Candidate with the sign of the drop slipped.                 *)
CandidateAdds(m, d) == m + d

(* (sensor.moisture_level - drop).max(0.0)                                 *)
Candidate(m, d) == IF m - d > 0 THEN m - d ELSE 0

(* animation_lines: style_line on every line of the glyph.                 *)
Paint(s, f) ==
    [i \in 1..Len(FLOWER_BASE) |-> StyleLine(i - 1, FLOWER_BASE[i], f, s)]

(* One iteration up to the paint: draw a drop, call transition on the      *)
(* candidate reading, paint the new state.                                 *)
DriveTick ==
    /\ op /= "quit"
    /\ \E d \in MinDrop..MaxDrop :
            Transition(F32(Candidate(moisture_level, d)))
    /\ canvas' = Paint(state', animation_frame')
    /\ UNCHANGED <<fed, twin, style_args>>

(* The poll that follows the paint reads 'e'.                              *)
KeyError ==
    /\ op = "transition"
    /\ state' = "Error"
    /\ op' = "override"
    /\ UNCHANGED <<moisture_level, threshold, just_watered, animation_frame,
                   new_moisture, message, fed, others>>

(* The poll that follows the paint reads 'q': the loop ends.               *)
KeyQuit ==
    /\ op = "transition"
    /\ op' = "quit"
    /\ UNCHANGED <<state, moisture_level, threshold, just_watered,
                   animation_frame, new_moisture, message, fed, others>>

LoopNext == DriveTick \/ KeyError \/ KeyQuit

SpecLoop == Init /\ [][LoopNext]_vars

(* The loop keeps ticking and no key is ever pressed.                      *)
SpecLoopFair == Init /\ [][DriveTick]_vars /\ WF_vars(DriveTick)

----------------------------------------------------------------------------
(* C1.  Error is absorbing: once state = Error, every step (and every      *)
(* further override) leaves state = Error.                                 *)
ErrorAbsorbing == [][state = "Error" => state' = "Error"]_vars

(* A step has been taken in state Error.                                   *)
ErrorStepTaken == state = "Error" /\ op = "transition"

(* C2, as claimed.  After a step that took Monitoring to Activating and    *)
(* left moisture m, the very next step leaves moisture m + 15.0 whatever   *)
(* reading is proposed to it.                                              *)
WateringIgnoresReading ==
    [][(state = "Activating" /\ op = "transition" /\ op' = "transition")
        => moisture_level' = moisture_level + WaterBump]_vars

(* C2, amended.  The step that follows a Monitoring -> Activating step     *)
(* applies its proposed reading p and leaves moisture max(p, 0.0) + 15.0   *)
(* with just_watered set; it is the step after that one which ignores its  *)
(* reading and leaves the moisture unchanged.                              *)
WateringAppliesReading ==
    [][/\ (state = "Activating" /\ op = "transition" /\ op' = "transition")
            => /\ moisture_level' = F32Max0(new_moisture') + WaterBump
               /\ just_watered'
       /\ (just_watered /\ op' = "transition")
            => moisture_level' = moisture_level]_vars

(* The watering step was proposed a reading <= 0 (or NaN): the moisture    *)
(* is 15.0, not the 29.5 or less that m + 15.0 would need.                 *)
WateredFromZero ==
    /\ op = "transition"
    /\ just_watered
    /\ state = "Adjusting"
    /\ moisture_level = WaterBump

(* C3.  Hysteresis: a step from Adjusting with moisture in                 *)
(* [threshold, threshold+10) that does not decrease the moisture stays in  *)
(* Adjusting while the moisture is below threshold+10 and goes to Idle     *)
(* (not Monitoring, not Adjusting) at the first moisture >= threshold+10;  *)
(* further non-decreasing steps from there stay in Idle.                   *)
Hysteresis ==
    [][/\ (/\ op' = "transition"
           /\ state = "Adjusting"
           /\ threshold <= moisture_level
           /\ moisture_level < threshold + BandWidth
           /\ moisture_level' >= moisture_level)
            => IF moisture_level' < threshold + BandWidth
               THEN state' = "Adjusting" /\ message' = None
               ELSE state' = "Idle"
       /\ (/\ op' = "transition"
           /\ state = "Idle"
           /\ moisture_level >= threshold + BandWidth
           /\ moisture_level' >= moisture_level)
            => state' = "Idle"]_vars

(* Adjusting has gone idle with the moisture exactly at threshold+10.      *)
IdleAtBandEdge ==
    /\ op = "transition"
    /\ state = "Idle"
    /\ moisture_level = threshold + BandWidth
    /\ message = Some("Moisture optimal (40.0%), going idle")

(* C4.  Lower clamp: the moisture is never negative, whatever readings     *)
(* (negative ones and NaN included) and overrides occurred.                *)
LowerClamp == moisture_level >= 0

(* A non-suppressed step was proposed a negative reading.                  *)
NegativeReadingClamped ==
    /\ op = "transition"
    /\ ~new_moisture.nan
    /\ new_moisture.v < 0
    /\ moisture_level = 0

(* C5.  just_watered lasts one tick: after a step it is true exactly when  *)
(* that step ran the Activating arm, and a step that starts with it set    *)
(* clears it, in whatever state (Error by override included).              *)
JustWateredOneTick ==
    [][op' = "transition"
        => /\ just_watered' <=> (state = "Activating")
           /\ just_watered => ~just_watered']_vars

(* The override came right after a watering step: Error with the flag set. *)
WateredThenOverridden ==
    /\ op = "override"
    /\ state = "Error"
    /\ just_watered

(* C6.  Without the override no sequence of steps reaches Error.           *)
NoErrorWithoutOverride == state /= "Error"

(* Steps alone have watered, gone idle and come back on a reading clamped  *)
(* to 0.0.                                                                 *)
BackToMonitoringAtZero ==
    /\ state = "Monitoring"
    /\ moisture_level = 0
    /\ message = Some("Moisture dropping, back to monitoring")

(* C7.  The override is possible in every configuration and sets           *)
(* state = Error at once; every step taken in Error flips animation_frame  *)
(* to the other value of {0,1} and returns the fixed Error message.        *)
OverrideThenBlink ==
    [][/\ ENABLED Override
       /\ op' = "override" => state' = "Error"
       /\ (state = "Error" /\ op' = "transition")
            => /\ animation_frame \in {0, 1}
               /\ animation_frame' = 1 - animation_frame
               /\ message' = Some("Error state, no transitions")]_vars

(* A step was taken in Error after an override: the frame has flipped to   *)
(* 1 and the message is the fixed one.                                     *)
ErrorBlinkedAfterOverride ==
    /\ op = "transition"
    /\ state = "Error"
    /\ animation_frame = 1
    /\ message = Some("Error state, no transitions")

(* C8, as claimed.  Readings 29.0, x, x give 29.0 / Activating / "Moisture *)
(* low (29.0%), activating...", then 44.0 / Adjusting / "Watering...       *)
(* Moisture now 44.0%", then 44.0 / Adjusting / no message, for every x.   *)
ReferenceScenarioAsClaimed ==
    /\ fed = 1 => /\ moisture_level = 58
                  /\ state = "Activating"
                  /\ message = Some("Moisture low (29.0%), activating...")
    /\ fed = 2 => /\ moisture_level = 88
                  /\ state = "Adjusting"
                  /\ message = Some("Watering... Moisture now 44.0%")
    /\ fed = 3 => /\ moisture_level = 88
                  /\ state = "Adjusting"
                  /\ message = None

(* C8, amended.  Tick 1 is as claimed.  Tick 2 applies x: moisture is      *)
(* max(x, 0.0) + 15.0 (44.0 for x = 29.0), state Adjusting, message        *)
(* "Watering... Moisture now <moisture>%".  Tick 3 holds that moisture for *)
(* every x; the state stays Adjusting without a message only if it is in   *)
(* [30.0, 40.0), and for x = 29.0 it is Idle with message "Moisture        *)
(* optimal (44.0%), going idle".                                           *)
ReferenceScenario ==
    /\ fed = 1 => /\ moisture_level = 58
                  /\ state = "Activating"
                  /\ message = Some("Moisture low (29.0%), activating...")
    /\ fed = 2 => /\ moisture_level = F32Max0(new_moisture) + WaterBump
                  /\ state = "Adjusting"
                  /\ message = Some("Watering... Moisture now "
                                      \o Fmt1(moisture_level) \o "%")
                  /\ new_moisture = F32(58)
                       => /\ moisture_level = 88
                          /\ message = Some("Watering... Moisture now 44.0%")
    /\ fed = 3 => /\ moisture_level = F32Max0(new_moisture) + WaterBump
                  /\ (state = "Adjusting" /\ message = None)
                       <=> (/\ threshold <= moisture_level
                            /\ moisture_level < threshold + BandWidth)
                  /\ new_moisture = F32(58)
                       => /\ moisture_level = 88
                          /\ state = "Idle"
                          /\ message =
                               Some("Moisture optimal (44.0%), going idle")

(* The scenario has run its three ticks with x = 29.0.                     *)
ScenarioDoneAt29 == fed = 3 /\ new_moisture = F32(58) /\ state = "Idle"

(* C9.  Totality: in every reachable configuration the state is one of the *)
(* five variants, the frame counter is 0 or 1 (so animation_frame + 1      *)
(* cannot overflow), and a step is enabled for every proposed reading.     *)
Totality ==
    /\ state \in DeviceState
    /\ just_watered \in BOOLEAN
    /\ animation_frame \in {0, 1}
    /\ \A r \in Readings : ENABLED Transition(r)

(* A step was taken on a NaN reading (ignored: the tick was suppressed).   *)
StepOnNaN == op = "transition" /\ new_moisture.nan /\ state = "Idle"

(* C10.  A step that starts with just_watered set leaves the moisture as   *)
(* it was (the state is then never Activating); a step that starts with it *)
(* clear sets the moisture to max(proposed, 0.0), to which the Activating  *)
(* arm then adds 15.0.                                                     *)
SuppressionHoldsReading ==
    [][op' = "transition"
        => /\ (just_watered /\ state /= "Activating")
                => moisture_level' = moisture_level
           /\ ~just_watered
                => moisture_level' =
                     F32Max0(new_moisture')
                       + (IF state = "Activating" THEN WaterBump ELSE 0)]_vars

(* A suppressed step was taken in Error: the moisture is not the reading.  *)
SuppressedStepInError ==
    /\ op = "transition"
    /\ state = "Error"
    /\ moisture_level /= F32Max0(new_moisture)

(* C11.  Transition table: with m the moisture after the pre-step (the     *)
(* held value if just_watered, max(proposed, 0.0) otherwise), a step goes  *)
(* Monitoring -> Activating iff m < threshold; Activating -> Adjusting     *)
(* with moisture m + 15.0; Adjusting -> Idle iff m >= threshold+10,        *)
(* -> Monitoring iff m < threshold, else stays; Idle -> Monitoring iff     *)
(* m < threshold; Error -> Error; and outside Activating the moisture is m.*)
TableConformance ==
    [][op' = "transition" =>
        LET m == IF just_watered THEN moisture_level
                 ELSE IF new_moisture'.nan THEN 0
                 ELSE IF new_moisture'.v > 0 THEN new_moisture'.v ELSE 0
        IN  /\ state = "Monitoring" =>
                /\ state' = "Activating" <=> m < threshold
                /\ state' = "Monitoring" <=> m >= threshold
                /\ moisture_level' = m
            /\ state = "Activating" =>
                /\ state' = "Adjusting"
                /\ moisture_level' = m + 30
            /\ state = "Adjusting" =>
                /\ state' = "Idle" <=> m >= threshold + 20
                /\ state' = "Monitoring" <=> m < threshold
                /\ state' = "Adjusting"
                     <=> (threshold <= m /\ m < threshold + 20)
                /\ moisture_level' = m
            /\ state = "Idle" =>
                /\ state' = "Monitoring" <=> m < threshold
                /\ state' = "Idle" <=> m >= threshold
                /\ moisture_level' = m
            /\ state = "Error" =>
                /\ state' = "Error"
                /\ moisture_level' = m]_vars

(* A Monitoring step was proposed exactly the threshold and stayed.        *)
MonitoringStaysAtThreshold ==
    /\ op = "transition"
    /\ state = "Monitoring"
    /\ message = None
    /\ moisture_level = threshold

(* C12.  Message policy: a step returns a message exactly when it changes  *)
(* the state or is taken in Error; so a step that stays in Monitoring,     *)
(* Adjusting or Idle returns none, and every Activating step and every     *)
(* Error step returns one.                                                 *)
MessagePolicy ==
    [][op' = "transition" =>
        /\ message' /= None <=> (state' /= state \/ state = "Error")
        /\ state \in {"Activating", "Error"} => message' /= None]_vars

(* A step has stayed in Idle: it returned no message.                      *)
IdleStayedSilent == op = "transition" /\ state = "Idle" /\ message = None

(* C13.  animation_frame is always 0 or 1, and it is 0 after every step    *)
(* taken from Adjusting or from Idle.                                      *)
FrameIsBinary ==
    [][/\ animation_frame \in {0, 1}
       /\ animation_frame' \in {0, 1}
       /\ (op' = "transition" /\ state \in {"Adjusting", "Idle"})
            => animation_frame' = 0]_vars

(* The step after watering (frame 1) was taken from Adjusting and stayed:  *)
(* the frame is back to 0.                                                 *)
AdjustingStayedFrameReset ==
    /\ op = "transition"
    /\ state = "Adjusting"
    /\ ~just_watered
    /\ animation_frame = 0
    /\ message = None

(* C14.  animation_frame does not influence control: two sensors that     *)
(* differ in animation_frame only, given the same readings and overrides,  *)
(* agree after every step on state, moisture, just_watered and message.    *)
FrameNonInterference ==
    /\ state = twin.state
    /\ moisture_level = twin.moisture_level
    /\ just_watered = twin.just_watered
    /\ message = twin.message

(* Both sensors were stepped while their frames differ.                    *)
TwinsDifferInFrame ==
    /\ op = "transition"
    /\ animation_frame /= twin.animation_frame
    /\ state = "Error"

(* C15.  Styler rule.  The styled line keeps its text.  Monitoring and     *)
(* Adjusting give one fixed colour each for every line and both frames;    *)
(* Activating and Error give their active/alert colour on frame 0 and      *)
(* black on frame 1, whatever the index; Idle gives, whatever the frame,   *)
(* the centre colour exactly for index 11 and for indices 7..9 whose text  *)
(* contains " / ", and the petal colour otherwise.                         *)
StylerRule ==
    canvas /= <<>> =>
        LET i == style_args[1]
            line == style_args[2]
            f == style_args[3]
            s == style_args[4]
            fg == canvas[1].fg
        IN  /\ canvas[1].text = line
            /\ s = "Monitoring" => fg = "Yellow"
            /\ s = "Adjusting" => fg = "Cyan"
            /\ s = "Activating" =>
                /\ f = 0 => fg = "Blue"
                /\ f = 1 => fg = "Black"
            /\ s = "Error" =>
                /\ f = 0 => fg = "Red"
                /\ f = 1 => fg = "Black"
            /\ s = "Idle" =>
                /\ fg \in {"White", "Rgb(255, 165, 0)"}
                /\ fg = "White" <=>
                     \/ i = 11
                     \/ i \in 7..9 /\ Contains(line, " / ")

(* An Idle call on line 10 of the glyph, whose text contains " / " but     *)
(* whose index is outside 7..9: it got the petal colour, on frame 1.       *)
PetalOutsideBand ==
    /\ canvas /= <<>>
    /\ style_args = <<10, FLOWER_BASE[11], 1, "Idle">>
    /\ Contains(FLOWER_BASE[11], " / ")
    /\ canvas[1].fg = "Rgb(255, 165, 0)"

(* C16.  At every paint of the driving loop, state = Activating implies   *)
(* animation_frame = 0 and just_watered = false, and every painted line    *)
(* has the active colour, never the background one; the next tick leaves   *)
(* Activating.                                                             *)
ActivatingPaintedActive ==
    [][/\ state' = "Activating" =>
            /\ animation_frame' = 0
            /\ ~just_watered'
            /\ Len(canvas') = Len(FLOWER_BASE)
            /\ \A i \in 1..Len(canvas') : canvas'[i].fg = "Blue"
       /\ (state = "Activating" /\ op' = "transition")
            => state' /= "Activating"]_vars

(* Activating was painted in a later watering round (moisture below the    *)
(* 28.5 of the first one).                                                 *)
ActivatingPaintedAgain ==
    /\ op = "transition"
    /\ state = "Activating"
    /\ moisture_level < 57
    /\ canvas[1].fg = "Blue"

(* C17.  In the driving loop the moisture never exceeds its initial 50.0.  *)
MoistureNeverAboveInitial == moisture_level <= InitMoisture

(* The highest watering of the loop: 29.5 - 0.5 + 15.0 = 44.0.             *)
WateredTo44 ==
    /\ op = "transition"
    /\ just_watered
    /\ moisture_level = 88

====
